---------------------------- MODULE Spec2Model ----------------------------
(***************************************************************************)
(* The circular queue of the parking system (src/improved_app.py and       *)
(* src/app.py): class CircularQueue and the callers that mutate it.        *)
(*                                                                         *)
(* A queue object is a record [capacity, data, front, size]; data is the   *)
(* Python list self.data, a function on 0..capacity-1.  Every method is an *)
(* operator from a queue to the queue it leaves behind together with what  *)
(* it returned or raised.                                                  *)
(***************************************************************************)
EXTENDS Integers, Sequences, FiniteSets, TLC

VARIABLES
    queue,   \* the CircularQueue object under test (self.queue of the app)
    clock,   \* datetime.now(), counted in calls of enqueue
    op,      \* name of the last method called on queue
    arg,     \* its argument: requested capacity, absolute index, or entry time
    ret,     \* what it returned or raised (index: an absolute index, -1 for None)
    pre,     \* the queue as it was when the call was made
    fifo,    \* bookkeeping of the enqueue-then-dequeue runs that start at an empty queue
    script,  \* progress through the round-trip example of the specification
    twin,    \* a second queue driven by the same calls: SpecTwin; BasicApp.queue: SpecVariants
    twinRet, \* what the last call returned or raised on twin
    app      \* which program owns queue: "improved" (improved_app.py), "basic" (app.py),
             \* or "both" when queue and twin are the queues of the two applications

vars == <<queue, clock, op, arg, ret, pre, fifo, script, twin, twinRet, app>>

----------------------------------------------------------------------------
(* Bounds of the model *)

\* Largest capacity ever requested from the constructor or resize_preserve.
MaxCap == 5

\* Number of enqueue calls (successful or not) in one behaviour.
MaxClock == 6

\* Car ids typed by the user.
CarIds == {"KA01", "KA02"}

----------------------------------------------------------------------------
(* Values *)

\* Python's None, in the shape of a record so that slots compare uniformly.
None == [id |-> "", entry |-> 0]

\* record = {'id': car_id, 'entry': entry}
Record(car_id, entry) == [id |-> car_id, entry |-> entry]

\* The floor max(4, capacity) of __init__ and resize_preserve.
MinCapacity == 4

Max(a, b) == IF a >= b THEN a ELSE b

Min(S) == CHOOSE x \in S : \A y \in S : x <= y

\* Capacities a caller asks resize_preserve for: below the floor, at it, above it.
ResizeRequests == {0, MinCapacity - 1} \cup (MinCapacity..MaxCap)

----------------------------------------------------------------------------
(* class CircularQueue *)

\* [None] * capacity
EmptyData(capacity) == [i \in 0..(capacity - 1) |-> None]

\* __init__ that takes the requested capacity as it is
CircularQueue_unclamped(capacity) ==
    [capacity |-> capacity, data |-> EmptyData(capacity), front |-> 0, size |-> 0]

\* CircularQueue.__init__(capacity)
CircularQueue(capacity) ==
    LET c == Max(MinCapacity, capacity)
    IN  [capacity |-> c, data |-> EmptyData(c), front |-> 0, size |-> 0]

is_full(q) == q.size = q.capacity

is_empty(q) == q.size = 0

\* enqueue with the index computed without the modulo
enqueue_nomod(q, item) ==
    IF is_full(q)
    THEN [q |-> q, exc |-> "OverflowError"]
    ELSE LET idx == IF q.front + q.size >= q.capacity THEN q.front ELSE q.front + q.size
         IN  [q   |-> [q EXCEPT !.data[idx] = item, !.size = @ + 1],
              exc |-> "none"]

\* enqueue that overwrites the front slot of a full queue instead of raising
enqueue_overwrite(q, item) ==
    LET idx == (q.front + q.size) % q.capacity
    IN  IF is_full(q)
        THEN [q |-> [q EXCEPT !.data[idx] = item], exc |-> "OverflowError"]
        ELSE [q   |-> [q EXCEPT !.data[idx] = item, !.size = @ + 1],
              exc |-> "none"]

enqueue(q, item) ==
    IF is_full(q)
    THEN [q |-> q, exc |-> "OverflowError"]
    ELSE LET idx == (q.front + q.size) % q.capacity
         IN  [q   |-> [q EXCEPT !.data[idx] = item, !.size = @ + 1],
              exc |-> "none"]

\* dequeue that leaves the record in the slot it returns
dequeue_noclear(q) ==
    IF is_empty(q)
    THEN [q |-> q, item |-> None, exc |-> "IndexError"]
    ELSE [q    |-> [q EXCEPT !.front = (@ + 1) % q.capacity, !.size = @ - 1],
          item |-> q.data[q.front],
          exc  |-> "none"]

\* dequeue that moves front even when the queue is empty
dequeue_unguarded(q) ==
    IF is_empty(q)
    THEN [q    |-> [q EXCEPT !.front = (@ + 1) % q.capacity],
          item |-> None, exc |-> "IndexError"]
    ELSE [q    |-> [q EXCEPT !.data[q.front] = None,
                             !.front = (@ + 1) % q.capacity,
                             !.size = @ - 1],
          item |-> q.data[q.front],
          exc  |-> "none"]

\* dequeue that takes the newest record (the rear) instead of the oldest
dequeue_lifo(q) ==
    IF is_empty(q)
    THEN [q |-> q, item |-> None, exc |-> "IndexError"]
    ELSE LET rear == (q.front + q.size - 1) % q.capacity
         IN  [q    |-> [q EXCEPT !.data[rear] = None, !.size = @ - 1],
              item |-> q.data[rear],
              exc  |-> "none"]

dequeue(q) ==
    IF is_empty(q)
    THEN [q |-> q, item |-> None, exc |-> "IndexError"]
    ELSE [q    |-> [q EXCEPT !.data[q.front] = None,
                             !.front = (@ + 1) % q.capacity,
                             !.size = @ - 1],
          item |-> q.data[q.front],
          exc  |-> "none"]

content_list(q) ==
    [i \in 1..q.size |-> q.data[(q.front + (i - 1)) % q.capacity]]

\* The loop of find_index_by_id from position i on: the absolute index of the
\* first slot whose record has the id, or -1 for None when the loop runs out.
RECURSIVE find_from(_, _, _)
find_from(q, car_id, i) ==
    IF i >= q.size
    THEN -1
    ELSE LET idx  == (q.front + i) % q.capacity
             item == q.data[idx]
         IN  IF item # None /\ item.id = car_id
             THEN idx
             ELSE find_from(q, car_id, i + 1)

\* find_index_by_id that returns the position in the window, not the absolute index
find_index_by_id_relative(q, car_id) ==
    LET idx == find_from(q, car_id, 0)
    IN  IF idx = -1 THEN -1 ELSE (idx - q.front + q.capacity) % q.capacity

\* find_index_by_id that keeps scanning and returns the last match
find_index_by_id_last(q, car_id) ==
    LET hits == {i \in 0..(q.size - 1) :
                    LET item == q.data[(q.front + i) % q.capacity]
                    IN  item # None /\ item.id = car_id}
    IN  IF hits = {}
        THEN -1
        ELSE (q.front + (CHOOSE x \in hits : \A y \in hits : x >= y)) % q.capacity

find_index_by_id(q, car_id) == find_from(q, car_id, 0)

\* "for it in new_items: self.enqueue(it)": stops at the first exception.
RECURSIVE enqueue_each(_, _)
enqueue_each(q, items) ==
    IF items = <<>>
    THEN [q |-> q, exc |-> "none"]
    ELSE LET r == enqueue(q, Head(items))
         IN  IF r.exc # "none" THEN r ELSE enqueue_each(r.q, Tail(items))

\* the refill loop of resize_preserve without its is_full() test
RECURSIVE enqueue_until_full_unguarded(_, _)
enqueue_until_full_unguarded(q, items) ==
    IF items = <<>>
    THEN [q |-> q, exc |-> "none"]
    ELSE LET r == enqueue(q, Head(items))
         IN  IF r.exc # "none" THEN r ELSE enqueue_until_full_unguarded(r.q, Tail(items))

\* "for it in items: if self.is_full(): break; self.enqueue(it)"
RECURSIVE enqueue_until_full(_, _)
enqueue_until_full(q, items) ==
    IF items = <<>> \/ is_full(q)
    THEN [q |-> q, exc |-> "none"]
    ELSE LET r == enqueue(q, Head(items))
         IN  IF r.exc # "none" THEN r ELSE enqueue_until_full(r.q, Tail(items))

\* remove_by_index that rebuilds into a slot array one shorter
remove_by_index_shrink(q, idx_to_remove) ==
    IF q.size = 0
    THEN [q |-> q, removed |-> FALSE, exc |-> "none"]
    ELSE LET items == content_list(q)
             rels  == {i \in 0..(Len(items) - 1) :
                          (q.front + i) % q.capacity = idx_to_remove}
         IN  IF rels = {}
             THEN [q |-> q, removed |-> FALSE, exc |-> "none"]
             ELSE LET rel == Min(rels)
                      new_items == SubSeq(items, 1, rel)
                                      \o SubSeq(items, rel + 2, Len(items))
                      r == enqueue_each([capacity |-> q.capacity - 1,
                                         data |-> EmptyData(q.capacity - 1),
                                         front |-> 0, size |-> 0],
                                        new_items)
                  IN  [q |-> r.q, removed |-> (r.exc = "none"), exc |-> r.exc]

\* remove_by_index that puts the survivors back newest first
remove_by_index_reversed(q, idx_to_remove) ==
    IF q.size = 0
    THEN [q |-> q, removed |-> FALSE, exc |-> "none"]
    ELSE LET items == content_list(q)
             rels  == {i \in 0..(Len(items) - 1) :
                          (q.front + i) % q.capacity = idx_to_remove}
         IN  IF rels = {}
             THEN [q |-> q, removed |-> FALSE, exc |-> "none"]
             ELSE LET rel == Min(rels)
                      kept == SubSeq(items, 1, rel)
                                      \o SubSeq(items, rel + 2, Len(items))
                      new_items == [i \in 1..Len(kept) |-> kept[Len(kept) + 1 - i]]
                      r == enqueue_each([q EXCEPT !.data = EmptyData(q.capacity),
                                                  !.front = 0,
                                                  !.size = 0],
                                        new_items)
                  IN  [q |-> r.q, removed |-> (r.exc = "none"), exc |-> r.exc]

\* remove_by_index that keeps front where it was when it rebuilds
remove_by_index_keepfront(q, idx_to_remove) ==
    IF q.size = 0
    THEN [q |-> q, removed |-> FALSE, exc |-> "none"]
    ELSE LET items == content_list(q)
             rels  == {i \in 0..(Len(items) - 1) :
                          (q.front + i) % q.capacity = idx_to_remove}
         IN  IF rels = {}
             THEN [q |-> q, removed |-> FALSE, exc |-> "none"]
             ELSE LET rel == Min(rels)
                      new_items == SubSeq(items, 1, rel)
                                      \o SubSeq(items, rel + 2, Len(items))
                      r == enqueue_each([q EXCEPT !.data = EmptyData(q.capacity),
                                                  !.size = 0],
                                        new_items)
                  IN  [q |-> r.q, removed |-> (r.exc = "none"), exc |-> r.exc]

\* remove_by_index that takes idx as a logical position when it is not occupied
remove_by_index_lenient(q, idx_to_remove) ==
    IF q.size = 0
    THEN [q |-> q, removed |-> FALSE, exc |-> "none"]
    ELSE LET items == content_list(q)
             rels  == {i \in 0..(Len(items) - 1) :
                          (q.front + i) % q.capacity = idx_to_remove % q.capacity}
         IN  IF rels = {}
             THEN [q |-> [q EXCEPT !.front = 0], removed |-> FALSE, exc |-> "none"]
             ELSE LET rel == Min(rels)
                      new_items == SubSeq(items, 1, rel)
                                      \o SubSeq(items, rel + 2, Len(items))
                      r == enqueue_each([q EXCEPT !.data = EmptyData(q.capacity),
                                                  !.front = 0,
                                                  !.size = 0],
                                        new_items)
                  IN  [q |-> r.q, removed |-> (r.exc = "none"), exc |-> r.exc]

remove_by_index(q, idx_to_remove) ==
    IF q.size = 0
    THEN [q |-> q, removed |-> FALSE, exc |-> "none"]
    ELSE LET items == content_list(q)
             rels  == {i \in 0..(Len(items) - 1) :
                          (q.front + i) % q.capacity = idx_to_remove}
         IN  IF rels = {}
             THEN [q |-> q, removed |-> FALSE, exc |-> "none"]
             ELSE LET rel == Min(rels)
                      new_items == SubSeq(items, 1, rel)
                                      \o SubSeq(items, rel + 2, Len(items))
                      r == enqueue_each([q EXCEPT !.data = EmptyData(q.capacity),
                                                  !.front = 0,
                                                  !.size = 0],
                                        new_items)
                  IN  [q |-> r.q, removed |-> (r.exc = "none"), exc |-> r.exc]

\* resize_preserve that refills from the slot array instead of the logical sequence
resize_preserve_raw(q, new_capacity) ==
    LET items == [i \in 1..q.size |-> q.data[i - 1]]
        c     == Max(MinCapacity, new_capacity)
    IN  enqueue_until_full([capacity |-> c, data |-> EmptyData(c),
                            front |-> 0, size |-> 0],
                           items)

\* resize_preserve that keeps the newest records when it has to drop some
resize_preserve_tail(q, new_capacity) ==
    LET all   == content_list(q)
        c     == Max(MinCapacity, new_capacity)
        items == IF Len(all) > c THEN SubSeq(all, Len(all) - c + 1, Len(all)) ELSE all
    IN  enqueue_until_full([capacity |-> c, data |-> EmptyData(c),
                            front |-> 0, size |-> 0],
                           items)

resize_preserve(q, new_capacity) ==
    LET items == content_list(q)
        c     == Max(MinCapacity, new_capacity)
    IN  enqueue_until_full([capacity |-> c, data |-> EmptyData(c),
                            front |-> 0, size |-> 0],
                           items)


----------------------------------------------------------------------------
(* class ImprovedApp: the handler that calls two queue methods in a row *)

\* ImprovedApp.remove_by_id, car_id being what the dialog returned ("" when it was
\* cancelled or left blank): nothing is called on an empty queue, for a blank
\* car_id or when find_index_by_id returns None.  index is the idx it looked up.
remove_by_id(q, car_id) ==
    IF is_empty(q) \/ car_id = ""
    THEN [q |-> q, removed |-> FALSE, exc |-> "none", index |-> -1]
    ELSE LET idx == find_index_by_id(q, car_id)
         IN  IF idx = -1
             THEN [q |-> q, removed |-> FALSE, exc |-> "none", index |-> -1]
             ELSE LET r == remove_by_index(q, idx)
                  IN  [q |-> r.q, removed |-> r.removed, exc |-> r.exc,
                       index |-> idx]

----------------------------------------------------------------------------
(* What the presentation layer reads back after a call *)

\* redraw_cars reads self.queue.data[abs_idx] for every abs_idx in range(capacity).
Snapshot(q) == q.data

\* update_dashboard: front and rear, or "-" (here -1) for an empty queue.
Reported(q) ==
    IF is_empty(q)
    THEN <<-1, -1>>
    ELSE <<q.front, (q.front + q.size - 1) % q.capacity>>

----------------------------------------------------------------------------
(* Bookkeeping that observes the calls without taking part in them *)

NoRet == [exc |-> "none", item |-> None, removed |-> FALSE, index |-> -1]

NoArg == [n |-> 0, item |-> None]

\* A run starts whenever the queue is empty; it stays tracked while it consists of
\* enqueues followed by dequeues only.  pending is the list of records enqueued in
\* the run and not yet handed back, in the order of the enqueue calls.
FifoStart == [phase |-> "enq", pending |-> <<>>, expect |-> None,
              tracked |-> FALSE, served |-> 0]

FifoStep(f, opname, r, item, after) ==
    LET g == CASE opname = "enqueue" /\ r.exc = "none" /\ f.phase = "enq" ->
                    [f EXCEPT !.pending = Append(@, item), !.expect = None,
                              !.tracked = FALSE, !.served = 0]
               [] opname = "enqueue" /\ r.exc # "none" ->
                    [f EXCEPT !.expect = None, !.tracked = FALSE]
               [] opname = "dequeue" /\ f.phase \in {"enq", "deq"}
                                     /\ f.pending # <<>> ->
                    [f EXCEPT !.phase = "deq", !.pending = Tail(@),
                              !.expect = Head(f.pending), !.tracked = TRUE,
                              !.served = @ + 1]
               [] OTHER ->
                    [f EXCEPT !.phase = "off", !.pending = <<>>, !.expect = None,
                              !.tracked = FALSE, !.served = 0]
    IN  IF is_empty(after) /\ ~(g.tracked /\ g.pending # <<>>)
        THEN [g EXCEPT !.phase = "enq", !.pending = <<>>]
        ELSE g

\* The round-trip example: Construct(4), three enqueues, a dequeue, an enqueue.
ScriptOps == <<"enqueue", "enqueue", "enqueue", "dequeue", "enqueue">>

ScriptOff == [step |-> -1, recs |-> <<>>]

ScriptStep(s, opname, item) ==
    IF s.step >= 0 /\ s.step < Len(ScriptOps) /\ ScriptOps[s.step + 1] = opname
    THEN [step |-> s.step + 1,
          recs |-> IF opname = "enqueue" THEN Append(s.recs, item) ELSE s.recs]
    ELSE ScriptOff

----------------------------------------------------------------------------
(* The queue driven by an arbitrary caller *)

Init ==
    \E c \in 0..MaxCap :
        /\ queue = CircularQueue(c)
        /\ clock = 0
        /\ op = "construct"
        /\ arg = [n |-> c, item |-> None]
        /\ ret = NoRet
        /\ pre = CircularQueue(c)
        /\ fifo = FifoStart
        /\ script = IF c = 4 THEN [step |-> 0, recs |-> <<>>] ELSE ScriptOff
        /\ twin = CircularQueue(c)
        /\ twinRet = NoRet
        /\ app = "improved"

\* self.queue.enqueue({'id': car_id, 'entry': datetime.now()})
Enqueue ==
    /\ clock < MaxClock
    /\ \E car_id \in CarIds :
          LET item == Record(car_id, clock + 1)
              r    == enqueue(queue, item)
          IN  /\ queue' = r.q
              /\ clock' = clock + 1
              /\ op' = "enqueue"
              /\ arg' = [n |-> 0, item |-> item]
              /\ ret' = [exc |-> r.exc, item |-> None, removed |-> FALSE,
                  index |-> -1]
              /\ pre' = queue
              /\ fifo' = FifoStep(fifo, "enqueue", r, item, r.q)
              /\ script' = ScriptStep(script, "enqueue", item)
    /\ UNCHANGED <<app, twin, twinRet>>

\* self.queue.dequeue()
Dequeue ==
    LET r == dequeue(queue)
    IN  /\ queue' = r.q
        /\ op' = "dequeue"
        /\ arg' = NoArg
        /\ ret' = [exc |-> r.exc, item |-> r.item, removed |-> FALSE,
                  index |-> -1]
        /\ pre' = queue
        /\ fifo' = FifoStep(fifo, "dequeue", r, None, r.q)
        /\ script' = ScriptStep(script, "dequeue", None)
        /\ UNCHANGED <<app, clock, twin, twinRet>>

\* self.queue.remove_by_index(idx), idx any integer around the slot array
RemoveByIndex ==
    \E idx \in -1..queue.capacity :
        LET r == remove_by_index(queue, idx)
        IN  /\ queue' = r.q
            /\ op' = "remove_by_index"
            /\ arg' = [n |-> idx, item |-> None]
            /\ ret' = [exc |-> r.exc, item |-> None, removed |-> r.removed,
                  index |-> -1]
            /\ pre' = queue
            /\ fifo' = FifoStep(fifo, "remove_by_index", r, None, r.q)
            /\ script' = ScriptStep(script, "remove_by_index", None)
            /\ UNCHANGED <<app, clock, twin, twinRet>>

\* self.queue.resize_preserve(new_capacity)
ResizePreserve ==
    \E new_capacity \in ResizeRequests :
        LET r == resize_preserve(queue, new_capacity)
        IN  /\ queue' = r.q
            /\ op' = "resize_preserve"
            /\ arg' = [n |-> new_capacity, item |-> None]
            /\ ret' = [exc |-> r.exc, item |-> None, removed |-> FALSE,
                  index |-> -1]
            /\ pre' = queue
            /\ fifo' = FifoStep(fifo, "resize_preserve", r, None, r.q)
            /\ script' = ScriptStep(script, "resize_preserve", None)
            /\ UNCHANGED <<app, clock, twin, twinRet>>

\* self.queue.find_index_by_id(car_id), car_id any id, parked or not
FindIndexById ==
    \E car_id \in CarIds :
        /\ op' = "find_index_by_id"
        /\ arg' = [n |-> 0, item |-> Record(car_id, 0)]
        /\ ret' = [exc |-> "none", item |-> None, removed |-> FALSE,
                   index |-> find_index_by_id(queue, car_id)]
        /\ pre' = queue
        /\ fifo' = [fifo EXCEPT !.tracked = FALSE, !.expect = None]
        /\ script' = ScriptStep(script, "find_index_by_id", None)
        /\ UNCHANGED <<app, queue, clock, twin, twinRet>>

Next == Enqueue \/ Dequeue \/ RemoveByIndex \/ ResizePreserve \/ FindIndexById

Spec == Init /\ [][Next]_vars

----------------------------------------------------------------------------
(* Two queues of one capacity driven by the same calls.  While both are empty,  *)
(* twin alone may go through an enqueue and a dequeue, which leaves it empty    *)
(* with its front one slot further: the two then differ in front only.          *)

TwinCycle ==
    /\ is_empty(queue) /\ is_empty(twin)
    /\ clock < MaxClock
    /\ \E car_id \in CarIds :
          twin' = dequeue(enqueue(twin, Record(car_id, clock + 1)).q).q
    /\ clock' = clock + 1
    /\ op' = "twin_cycle"
    /\ arg' = NoArg
    /\ ret' = NoRet
    /\ twinRet' = NoRet
    /\ pre' = queue
    /\ UNCHANGED <<app, queue, fifo, script>>

TwinEnqueue ==
    /\ clock < MaxClock
    /\ \E car_id \in CarIds :
          LET item == Record(car_id, clock + 1)
              r    == enqueue(queue, item)
              t    == enqueue(twin, item)
          IN  /\ queue' = r.q
              /\ twin' = t.q
              /\ arg' = [n |-> 0, item |-> item]
              /\ ret' = [exc |-> r.exc, item |-> None, removed |-> FALSE,
                  index |-> -1]
              /\ twinRet' = [exc |-> t.exc, item |-> None, removed |-> FALSE,
                  index |-> -1]
    /\ clock' = clock + 1
    /\ op' = "enqueue"
    /\ pre' = queue
    /\ UNCHANGED <<app, fifo, script>>

TwinDequeue ==
    LET r == dequeue(queue)
        t == dequeue(twin)
    IN  /\ queue' = r.q
        /\ twin' = t.q
        /\ op' = "dequeue"
        /\ arg' = NoArg
        /\ ret' = [exc |-> r.exc, item |-> r.item, removed |-> FALSE,
                  index |-> -1]
        /\ twinRet' = [exc |-> t.exc, item |-> t.item, removed |-> FALSE,
                  index |-> -1]
        /\ pre' = queue
        /\ UNCHANGED <<app, clock, fifo, script>>

TwinResizePreserve ==
    \E new_capacity \in ResizeRequests :
        LET r == resize_preserve(queue, new_capacity)
            t == resize_preserve(twin, new_capacity)
        IN  /\ queue' = r.q
            /\ twin' = t.q
            /\ op' = "resize_preserve"
            /\ arg' = [n |-> new_capacity, item |-> None]
            /\ ret' = [exc |-> r.exc, item |-> None, removed |-> FALSE,
                  index |-> -1]
            /\ twinRet' = [exc |-> t.exc, item |-> None, removed |-> FALSE,
                  index |-> -1]
            /\ pre' = queue
            /\ UNCHANGED <<app, clock, fifo, script>>

TwinRemoveById ==
    \E car_id \in CarIds :
        LET r == remove_by_id(queue, car_id)
            t == remove_by_id(twin, car_id)
        IN  /\ queue' = r.q
            /\ twin' = t.q
            /\ op' = "remove_by_id"
            /\ arg' = [n |-> 0, item |-> Record(car_id, 0)]
            /\ ret' = [exc |-> r.exc, item |-> None, removed |-> r.removed,
                  index |-> -1]
            /\ twinRet' = [exc |-> t.exc, item |-> None, removed |-> t.removed,
                  index |-> -1]
            /\ pre' = queue
            /\ UNCHANGED <<app, clock, fifo, script>>

NextTwin ==
    TwinCycle \/ TwinEnqueue \/ TwinDequeue \/ TwinResizePreserve \/ TwinRemoveById

SpecTwin == Init /\ [][NextTwin]_vars

----------------------------------------------------------------------------
(* class CircularQueue of src/app.py, the basic variant *)

\* CircularQueue.__init__(capacity) of app.py
BasicCircularQueue(capacity) ==
    LET c == Max(MinCapacity, capacity)
    IN  [capacity |-> c, data |-> [i \in 0..(c - 1) |-> None],
         front |-> 0, size |-> 0]

basic_is_full(q) == q.size = q.capacity

basic_is_empty(q) == q.size = 0

basic_enqueue(q, item) ==
    IF basic_is_full(q)
    THEN [q |-> q, exc |-> "OverflowError"]
    ELSE LET idx == (q.front + q.size) % q.capacity
         IN  [q   |-> [q EXCEPT !.data[idx] = item, !.size = @ + 1],
              exc |-> "none"]

basic_dequeue(q) ==
    IF basic_is_empty(q)
    THEN [q |-> q, item |-> None, exc |-> "IndexError"]
    ELSE [q    |-> [q EXCEPT !.data[q.front] = None,
                             !.front = (@ + 1) % q.capacity,
                             !.size = @ - 1],
          item |-> q.data[q.front],
          exc  |-> "none"]

basic_content_list(q) ==
    [i \in 1..q.size |-> q.data[(q.front + (i - 1)) % q.capacity]]

----------------------------------------------------------------------------
(* class BasicApp of src/app.py: the button handlers *)

\* An integer dialog that was cancelled returns None, written -1 here; a string
\* dialog that was cancelled or left blank is written "".

\* BasicApp.park_car; exc is what enqueue raised, which the handler catches.
basic_park_car(q, car_id, now) ==
    IF basic_is_full(q) \/ car_id = ""
    THEN [q |-> q, exc |-> "none"]
    ELSE basic_enqueue(q, Record(car_id, now))

\* BasicApp.exit_car
basic_exit_car(q) ==
    IF basic_is_empty(q)
    THEN [q |-> q, item |-> None, exc |-> "none"]
    ELSE basic_dequeue(q)

\* "for it in old_items: if newq.is_full(): break; newq.enqueue(it)"
RECURSIVE basic_refill(_, _)
basic_refill(newq, old_items) ==
    IF old_items = <<>> \/ basic_is_full(newq)
    THEN [q |-> newq, exc |-> "none"]
    ELSE LET r == basic_enqueue(newq, Head(old_items))
         IN  IF r.exc # "none" THEN r ELSE basic_refill(r.q, Tail(old_items))

\* resize_capacity that copies the slot array from index 0 instead of the window
basic_resize_capacity_raw(q, val) ==
    IF val = -1
    THEN [q |-> q, exc |-> "none"]
    ELSE basic_refill(BasicCircularQueue(val), [i \in 1..q.size |-> q.data[i - 1]])

\* BasicApp.resize_capacity: a new queue is filled and swapped in.
basic_resize_capacity(q, val) ==
    IF val = -1
    THEN [q |-> q, exc |-> "none"]
    ELSE basic_refill(BasicCircularQueue(val), basic_content_list(q))

\* BasicApp.clear_all (no confirmation is asked)
basic_clear_all(q) == BasicCircularQueue(q.capacity)

----------------------------------------------------------------------------
(* class ImprovedApp of src/improved_app.py: the button handlers *)

\* park_car without the is_full check in front of the dialog
park_car_unguarded(q, car_id, now) ==
    IF car_id = ""
    THEN [q |-> q, exc |-> "none"]
    ELSE enqueue(q, Record(car_id, now))

\* ImprovedApp.park_car; exc is what enqueue raised, which the handler catches.
park_car(q, car_id, now) ==
    IF is_full(q) \/ car_id = ""
    THEN [q |-> q, exc |-> "none"]
    ELSE enqueue(q, Record(car_id, now))

\* ImprovedApp.exit_car
exit_car(q) ==
    IF is_empty(q)
    THEN [q |-> q, item |-> None, exc |-> "none"]
    ELSE dequeue(q)

\* ImprovedApp.search_by_id: the idx handed to on_slot_click, -1 when nothing is shown.
search_by_id(q, car_id) ==
    IF is_empty(q) \/ car_id = ""
    THEN -1
    ELSE find_index_by_id(q, car_id)

\* ImprovedApp.resize
resize(q, val) ==
    IF val = -1
    THEN [q |-> q, exc |-> "none"]
    ELSE resize_preserve(q, val)

\* clear_all that builds the new queue with the default capacity
clear_all_default(q, confirmed) ==
    IF ~confirmed THEN q ELSE CircularQueue(8)

\* ImprovedApp.clear_all
clear_all(q, confirmed) ==
    IF ~confirmed THEN q ELSE CircularQueue(q.capacity)

----------------------------------------------------------------------------
(* The two applications receiving the same button clicks and dialog answers.    *)
(* queue is ImprovedApp.queue, twin is BasicApp.queue; only the events both     *)
(* applications have are sent.                                                  *)

\* CircularQueue(capacity=8) in both __init__ methods
DefaultCapacity == 8

\* askinteger(..., minvalue=4): the dialog returns no smaller value
ResizeMinValue == 4

\* What the resize dialog can return: None (-1) or an integer from minvalue up.
ResizeAnswers == {-1} \cup (ResizeMinValue..MaxCap)

\* What a car id dialog can return: "" for cancel or blank.
IdAnswers == CarIds \cup {""}

\* Both applications are started.
InitVariants ==
    /\ app = "both"
    /\ queue = CircularQueue(DefaultCapacity)
    /\ twin = BasicCircularQueue(DefaultCapacity)
    /\ clock = 0
    /\ op = "construct"
    /\ arg = [n |-> DefaultCapacity, item |-> None]
    /\ ret = NoRet
    /\ twinRet = NoRet
    /\ pre = CircularQueue(DefaultCapacity)
    /\ fifo = FifoStart
    /\ script = ScriptOff

\* "Park" is clicked and the dialog, where it is shown, answers car_id.
BothPark ==
    /\ clock < MaxClock
    /\ \E car_id \in IdAnswers :
          LET r == park_car(queue, car_id, clock + 1)
              t == basic_park_car(twin, car_id, clock + 1)
          IN  /\ queue' = r.q
              /\ twin' = t.q
              /\ arg' = [n |-> 0, item |-> Record(car_id, clock + 1)]
              /\ ret' = [exc |-> r.exc, item |-> None, removed |-> FALSE,
                         index |-> -1]
              /\ twinRet' = [exc |-> t.exc, item |-> None, removed |-> FALSE,
                             index |-> -1]
              /\ clock' = IF car_id = "" THEN clock ELSE clock + 1
    /\ op' = "park_car"
    /\ pre' = queue
    /\ UNCHANGED <<app, fifo, script>>

\* "Exit" is clicked.
BothExit ==
    LET r == exit_car(queue)
        t == basic_exit_car(twin)
    IN  /\ queue' = r.q
        /\ twin' = t.q
        /\ op' = "exit_car"
        /\ arg' = NoArg
        /\ ret' = [exc |-> r.exc, item |-> r.item, removed |-> FALSE,
                   index |-> -1]
        /\ twinRet' = [exc |-> t.exc, item |-> t.item, removed |-> FALSE,
                       index |-> -1]
        /\ pre' = queue
        /\ UNCHANGED <<app, clock, fifo, script>>

\* "Resize" is clicked and the dialog answers val.
BothResize ==
    \E val \in ResizeAnswers :
        LET r == resize(queue, val)
            t == basic_resize_capacity(twin, val)
        IN  /\ queue' = r.q
            /\ twin' = t.q
            /\ op' = "resize"
            /\ arg' = [n |-> val, item |-> None]
            /\ ret' = [exc |-> r.exc, item |-> None, removed |-> FALSE,
                       index |-> -1]
            /\ twinRet' = [exc |-> t.exc, item |-> None, removed |-> FALSE,
                           index |-> -1]
            /\ pre' = queue
            /\ UNCHANGED <<app, clock, fifo, script>>

\* "Clear" is clicked; a click that is not confirmed clears neither application.
BothClear ==
    \E confirmed \in BOOLEAN :
        /\ queue' = clear_all(queue, confirmed)
        /\ twin' = IF confirmed THEN basic_clear_all(twin) ELSE twin
        /\ op' = "clear_all"
        /\ arg' = [n |-> IF confirmed THEN 1 ELSE 0, item |-> None]
        /\ ret' = NoRet
        /\ twinRet' = NoRet
        /\ pre' = queue
        /\ UNCHANGED <<app, clock, fifo, script>>

\* The events both applications have.
NextVariants == BothPark \/ BothExit \/ BothResize \/ BothClear

SpecVariants == InitVariants /\ [][NextVariants]_vars

----------------------------------------------------------------------------
(* One application, improved or basic, receiving button clicks and dialog       *)
(* answers.  queue is its self.queue.                                           *)

InitGui ==
    /\ app \in {"improved", "basic"}
    /\ queue = IF app = "improved" THEN CircularQueue(DefaultCapacity)
                                   ELSE BasicCircularQueue(DefaultCapacity)
    /\ clock = 0
    /\ op = "construct"
    /\ arg = [n |-> DefaultCapacity, item |-> None]
    /\ ret = NoRet
    /\ pre = queue
    /\ fifo = FifoStart
    /\ script = ScriptOff
    /\ twin = CircularQueue(DefaultCapacity)
    /\ twinRet = NoRet

\* "Park" is clicked and the dialog, where it is shown, answers car_id.
ClickPark ==
    /\ clock < MaxClock
    /\ \E car_id \in IdAnswers :
          LET r == IF app = "improved" THEN park_car(queue, car_id, clock + 1)
                                       ELSE basic_park_car(queue, car_id, clock + 1)
          IN  /\ queue' = r.q
              /\ arg' = [n |-> 0, item |-> Record(car_id, clock + 1)]
              /\ ret' = [exc |-> r.exc, item |-> None, removed |-> FALSE,
                         index |-> -1]
              /\ clock' = IF car_id = "" THEN clock ELSE clock + 1
    /\ op' = "park_car"
    /\ pre' = queue
    /\ UNCHANGED <<app, fifo, script, twin, twinRet>>

\* "Exit" is clicked.
ClickExit ==
    LET r == IF app = "improved" THEN exit_car(queue) ELSE basic_exit_car(queue)
    IN  /\ queue' = r.q
        /\ op' = "exit_car"
        /\ arg' = NoArg
        /\ ret' = [exc |-> r.exc, item |-> r.item, removed |-> FALSE,
                   index |-> -1]
        /\ pre' = queue
        /\ UNCHANGED <<app, clock, fifo, script, twin, twinRet>>

\* "Search by ID" is clicked (the basic application has no such button).
ClickSearch ==
    /\ app = "improved"
    /\ \E car_id \in IdAnswers :
          /\ op' = "search_by_id"
          /\ arg' = [n |-> 0, item |-> Record(car_id, 0)]
          /\ ret' = [exc |-> "none", item |-> None, removed |-> FALSE,
                     index |-> search_by_id(queue, car_id)]
          /\ pre' = queue
          /\ UNCHANGED <<app, queue, clock, fifo, script, twin, twinRet>>

\* "Remove by ID" is clicked (the basic application has no such button).
ClickRemoveById ==
    /\ app = "improved"
    /\ \E car_id \in IdAnswers :
          LET r == remove_by_id(queue, car_id)
          IN  /\ queue' = r.q
              /\ op' = "remove_by_id"
              /\ arg' = [n |-> 0, item |-> Record(car_id, 0)]
              /\ ret' = [exc |-> r.exc, item |-> None, removed |-> r.removed,
                         index |-> r.index]
              /\ pre' = queue
              /\ UNCHANGED <<app, clock, fifo, script, twin, twinRet>>

\* "Resize" is clicked and the dialog answers val.
ClickResize ==
    \E val \in ResizeAnswers :
        LET r == IF app = "improved" THEN resize(queue, val)
                                     ELSE basic_resize_capacity(queue, val)
        IN  /\ queue' = r.q
            /\ op' = "resize"
            /\ arg' = [n |-> val, item |-> None]
            /\ ret' = [exc |-> r.exc, item |-> None, removed |-> FALSE,
                       index |-> -1]
            /\ pre' = queue
            /\ UNCHANGED <<app, clock, fifo, script, twin, twinRet>>

\* "Clear" is clicked; only the improved application asks for a confirmation.
ClickClear ==
    \E confirmed \in BOOLEAN :
        /\ app = "basic" => confirmed
        /\ queue' = IF app = "improved" THEN clear_all(queue, confirmed)
                                        ELSE basic_clear_all(queue)
        /\ op' = "clear_all"
        /\ arg' = [n |-> IF confirmed THEN 1 ELSE 0, item |-> None]
        /\ ret' = NoRet
        /\ pre' = queue
        /\ UNCHANGED <<app, clock, fifo, script, twin, twinRet>>

NextGui ==
    \/ ClickPark \/ ClickExit \/ ClickSearch
    \/ ClickRemoveById \/ ClickResize \/ ClickClear

SpecGui == InitGui /\ [][NextGui]_vars

----------------------------------------------------------------------------
(* Helpers of the properties *)

\* Absolute indices of the logical window of q.
Window(q) == {(q.front + i) % q.capacity : i \in 0..(q.size - 1)}

\* Absolute indices whose slot holds a record.
Occupied(q) == {i \in DOMAIN q.data : q.data[i] # None}

\* s without its element at position k (1-based).
Without(s, k) == SubSeq(s, 1, k - 1) \o SubSeq(s, k + 1, Len(s))

----------------------------------------------------------------------------
(* Properties *)

\* C1: after every call, failed ones included, 0 <= size <= capacity,
\* 0 <= front < capacity, and the slots that hold a record are exactly the
\* absolute positions (front + i) mod capacity for 0 <= i < size.
QueueInvariant ==
    /\ 0 <= queue.size /\ queue.size <= queue.capacity
    /\ 0 <= queue.front /\ queue.front < queue.capacity
    /\ DOMAIN queue.data = 0..(queue.capacity - 1)
    /\ Occupied(queue) = Window(queue)
    /\ Cardinality(Occupied(queue)) = queue.size

\* C1 witness: a failed enqueue on a full queue whose window wraps around.
QueueInvariantWitness ==
    /\ op = "enqueue" /\ ret.exc = "OverflowError"
    /\ queue.front > 0 /\ queue.size = queue.capacity

\* C2: in a run of N enqueues followed by N dequeues that starts at an empty queue
\* (whatever its front), every dequeue succeeds and returns the record that was
\* enqueued earliest among those not yet returned.
FifoOrder ==
    fifo.tracked =>
        /\ op = "dequeue"
        /\ ret.exc = "none"
        /\ ret.item = fifo.expect

\* C2 witness: a run of at least two records, started at an empty queue with
\* front > 0, is dequeued completely and front has wrapped past the end.
FifoOrderWitness ==
    /\ fifo.tracked /\ fifo.pending = <<>> /\ fifo.served >= 2
    /\ queue.front < fifo.served /\ fifo.served < queue.capacity

\* C3 as stated: Construct(4), enqueue A, B, C, dequeue returns A and leaves [B, C]
\* with front 1, size 2; enqueue D then leaves [B, C, D] with front 1, size 3, D in
\* absolute slot 0 (wrap-around) and slot 3 empty.
RoundTripAsStated ==
    /\ script.step = 4 =>
          /\ ret.exc = "none" /\ ret.item = script.recs[1]
          /\ content_list(queue) = <<script.recs[2], script.recs[3]>>
          /\ queue.front = 1 /\ queue.size = 2
    /\ script.step = 5 =>
          /\ content_list(queue) = <<script.recs[2], script.recs[3], script.recs[4]>>
          /\ queue.front = 1 /\ queue.size = 3
          /\ queue.data[0] = script.recs[4]
          /\ queue.data[3] = None

\* C3 amended: Construct(4), enqueue A, B, C, dequeue returns A and leaves [B, C]
\* with front 1, size 2; enqueue D then leaves [B, C, D] with front 1, size 3, D in
\* absolute slot 3 (no wrap-around yet) and slot 0, which A left, empty.
RoundTripExample ==
    /\ script.step = 4 =>
          /\ ret.exc = "none" /\ ret.item = script.recs[1]
          /\ content_list(queue) = <<script.recs[2], script.recs[3]>>
          /\ queue.front = 1 /\ queue.size = 2
    /\ script.step = 5 =>
          /\ ret.exc = "none"
          /\ content_list(queue) = <<script.recs[2], script.recs[3], script.recs[4]>>
          /\ queue.front = 1 /\ queue.size = 3 /\ queue.capacity = 4
          /\ queue.data[0] = None
          /\ queue.data[1] = script.recs[2]
          /\ queue.data[2] = script.recs[3]
          /\ queue.data[3] = script.recs[4]

\* C3 witness: the example has been run to its end.
RoundTripWitness == script.step = 5 /\ Len(script.recs) = 4

\* C4 as stated: whenever the requested new_cap is below the old size, the logical
\* sequence after resize_preserve is the first new_cap records of the old one.
ResizeTruncationAsStated ==
    (op = "resize_preserve" /\ arg.n < pre.size) =>
        content_list(queue) = SubSeq(content_list(pre), 1, arg.n)

\* C4 amended: with c = max(4, new_cap) below the old size, the logical sequence
\* after resize_preserve is the first c records of the old one, in order, and the
\* rest are gone.
ResizeTruncation ==
    (op = "resize_preserve" /\ Max(MinCapacity, arg.n) < pre.size) =>
        /\ ret.exc = "none"
        /\ content_list(queue)
              = SubSeq(content_list(pre), 1, Max(MinCapacity, arg.n))
        /\ queue.size = Max(MinCapacity, arg.n)
        /\ Occupied(queue) = 0..(queue.size - 1)

\* C4 witness: a queue of five records whose window wraps is cut to four.
ResizeTruncationWitness ==
    /\ op = "resize_preserve" /\ Max(MinCapacity, arg.n) < pre.size
    /\ pre.front > 0

\* C5: whenever new_cap is at least the old size, resize_preserve leaves the
\* logical sequence as it was, front at 0 and capacity at max(4, new_cap).
ResizeOrderPreservation ==
    (op = "resize_preserve" /\ arg.n >= pre.size) =>
        /\ ret.exc = "none"
        /\ content_list(queue) = content_list(pre)
        /\ queue.front = 0
        /\ queue.capacity = Max(MinCapacity, arg.n)

\* C5 witness: a wrapped window is moved into a queue of another capacity.
ResizeOrderWitness ==
    /\ op = "resize_preserve" /\ arg.n >= pre.size
    /\ pre.front + pre.size > pre.capacity
    /\ queue.capacity # pre.capacity

\* C6: whenever remove_by_index(idx) returns True, the logical sequence is the old
\* one without the record that was at absolute index idx, size is one less, front
\* is 0 and the survivors occupy the absolute indices 0..size-1.
RemovalCorrectness ==
    (op = "remove_by_index" /\ ret.removed) =>
        /\ arg.n \in Window(pre)
        /\ \E k \in 1..pre.size :
              /\ (pre.front + (k - 1)) % pre.capacity = arg.n
              /\ content_list(queue) = Without(content_list(pre), k)
        /\ queue.size = pre.size - 1
        /\ queue.front = 0
        /\ Occupied(queue) = 0..(queue.size - 1)
        /\ queue.capacity = pre.capacity

\* C6 witness: an interior record of a wrapped window is removed.
RemovalWitness ==
    /\ op = "remove_by_index" /\ ret.removed
    /\ pre.front + pre.size > pre.capacity
    /\ arg.n # pre.front
    /\ arg.n # (pre.front + pre.size - 1) % pre.capacity

\* C7 as stated: two empty queues of one capacity that differ in front only show
\* the same absolute slot contents and the same reported front and rear after
\* every identical sequence of calls.
TwinObservablyEqual ==
    /\ Snapshot(queue) = Snapshot(twin)
    /\ Reported(queue) = Reported(twin)

\* C7 amended: two empty queues of one capacity that differ in front only have,
\* after every identical sequence of enqueue, dequeue, resize_preserve and
\* remove-by-id calls, the same capacity, size and logical sequence, and every
\* call returned or raised the same on both.
TwinLogicallyEqual ==
    /\ queue.capacity = twin.capacity
    /\ queue.size = twin.size
    /\ content_list(queue) = content_list(twin)
    /\ ret = twinRet

\* C7 witness: after a dequeue that returned a record, the two queues hold at
\* least one record each and differ in front and in their slot arrays.
TwinWitness ==
    /\ op = "dequeue" /\ ret.exc = "none"
    /\ queue.size > 0
    /\ queue.front # twin.front
    /\ Snapshot(queue) # Snapshot(twin)

\* C8: enqueue on a full queue raises OverflowError and leaves capacity, front,
\* size and every slot as they were.
OverflowUnchanged ==
    (op = "enqueue" /\ pre.size = pre.capacity) =>
        /\ ret.exc = "OverflowError"
        /\ queue = pre

\* C8 witness: an enqueue was called on a full queue.
OverflowWitness ==
    op = "enqueue" /\ pre.size = pre.capacity /\ pre.front > 0

\* C9: dequeue on an empty queue raises IndexError and leaves capacity, front,
\* size and every slot as they were.
UnderflowUnchanged ==
    (op = "dequeue" /\ pre.size = 0) =>
        /\ ret.exc = "IndexError"
        /\ queue = pre

\* C9 witness: a dequeue was called on an empty queue whose front is not 0.
UnderflowWitness ==
    op = "dequeue" /\ pre.size = 0 /\ pre.front > 0

\* C10: remove_by_index(idx) returns False and leaves the whole queue as it was
\* whenever the queue is empty or idx is not an occupied position of the window,
\* idx outside 0..capacity-1 included.
RemoveFailureUnchanged ==
    (op = "remove_by_index" /\ (pre.size = 0 \/ arg.n \notin Window(pre))) =>
        /\ ~ret.removed
        /\ ret.exc = "none"
        /\ queue = pre

\* C10 witness: a non-empty queue with front > 0 is asked to remove an index
\* outside the slot array.
RemoveFailureWitness ==
    /\ op = "remove_by_index" /\ pre.size > 0 /\ pre.front > 0
    /\ arg.n \notin 0..(pre.capacity - 1)

\* C13: the constructor and resize_preserve, asked for capacity c, set capacity
\* to c when c >= 4 and to exactly 4 when c < 4, without raising; hence
\* capacity >= 4 and len(data) == capacity in every state.
CapacityFloor ==
    /\ op \in {"construct", "resize_preserve"} =>
          /\ ret.exc = "none"
          /\ arg.n < 4 => queue.capacity = 4
          /\ arg.n >= 4 => queue.capacity = arg.n
    /\ queue.capacity >= 4
    /\ DOMAIN queue.data = 0..(queue.capacity - 1)

\* C13 witness: a queue of capacity 5 that holds records is resized with a request
\* below 4.
CapacityFloorWitness ==
    /\ op = "resize_preserve" /\ arg.n < 4
    /\ pre.capacity = 5 /\ pre.size > 0 /\ queue.capacity = 4

\* C14: enqueue, dequeue, find_index_by_id and remove_by_index, successful or
\* not, leave capacity and the length of the slot array as they were.
CapacityFrame ==
    op \in {"enqueue", "dequeue", "find_index_by_id", "remove_by_index"} =>
        /\ queue.capacity = pre.capacity
        /\ DOMAIN queue.data = DOMAIN pre.data

\* C14 witness: a successful remove_by_index on a queue of capacity 5.
CapacityFrameWitness ==
    op = "remove_by_index" /\ ret.removed /\ pre.capacity = 5 /\ pre.size > 1

\* C16: on a queue that is not full, enqueue(record) stores the record at absolute
\* index (front + size) mod capacity, which was empty, adds exactly 1 to size and
\* leaves front, capacity and every other slot as they were.
EnqueueStep ==
    (op = "enqueue" /\ pre.size # pre.capacity) =>
        LET idx == (pre.front + pre.size) % pre.capacity
        IN  /\ ret.exc = "none"
            /\ pre.data[idx] = None
            /\ queue.data[idx] = arg.item
            /\ queue.size = pre.size + 1
            /\ queue.front = pre.front
            /\ queue.capacity = pre.capacity
            /\ DOMAIN queue.data = DOMAIN pre.data
            /\ \A i \in DOMAIN pre.data : i # idx => queue.data[i] = pre.data[i]

\* C16 witness: an enqueue whose target index has wrapped to the start of the array.
EnqueueStepWitness ==
    /\ op = "enqueue" /\ ret.exc = "none"
    /\ pre.size > 0
    /\ pre.front + pre.size >= pre.capacity

\* C17: on a non-empty queue, dequeue returns the record at absolute index front,
\* leaves that slot empty, moves front to (front + 1) mod capacity, takes exactly
\* 1 from size and leaves capacity and every other slot as they were.
DequeueStep ==
    (op = "dequeue" /\ pre.size # 0) =>
        /\ ret.exc = "none"
        /\ ret.item = pre.data[pre.front]
        /\ ret.item # None
        /\ queue.data[pre.front] = None
        /\ queue.front = (IF pre.front = pre.capacity - 1 THEN 0 ELSE pre.front + 1)
        /\ queue.size = pre.size - 1
        /\ queue.capacity = pre.capacity
        /\ DOMAIN queue.data = DOMAIN pre.data
        /\ \A i \in DOMAIN pre.data :
              i # pre.front => queue.data[i] = pre.data[i]

\* C17 witness: a dequeue that wraps front from capacity-1 to 0 and leaves records.
DequeueStepWitness ==
    /\ op = "dequeue" /\ ret.exc = "none"
    /\ pre.front = pre.capacity - 1 /\ queue.front = 0 /\ queue.size > 0

\* C18: the logical sequence lists the resident records in strictly increasing
\* order of their enqueue time; so in a non-empty queue the slot at front holds the
\* oldest resident record and the slot at rear = (front + size - 1) mod capacity
\* the newest.
ArrivalOrder ==
    LET s    == content_list(queue)
        rear == (queue.front + queue.size - 1) % queue.capacity
    IN  /\ \A i \in 1..Len(s) : s[i] # None
        /\ \A i \in 1..(Len(s) - 1) : s[i].entry < s[i + 1].entry
        /\ queue.size > 0 =>
              \A i \in Occupied(queue) :
                 /\ queue.data[queue.front].entry <= queue.data[i].entry
                 /\ queue.data[rear].entry >= queue.data[i].entry

\* C18 witness: after a removal from the middle and later enqueues, the window
\* wraps and holds at least three records.
ArrivalOrderWitness ==
    /\ op = "enqueue" /\ ret.exc = "none"
    /\ queue.size >= 3
    /\ queue.front + queue.size > queue.capacity
    /\ \E i \in 1..(queue.size - 1) :
          content_list(queue)[i + 1].entry > content_list(queue)[i].entry + 1

----------------------------------------------------------------------------
(* Properties of the applications *)

\* Positions (1-based) of the logical sequence s whose record has the id key.
Positions(s, key) == {i \in 1..Len(s) : s[i].id = key}

\* idx is what the lookup of key in q has to give: -1 (None) when no resident
\* record has the key, else the absolute index of the resident record with that
\* key that is earliest in the logical sequence and earliest to have arrived.
IsFirstMatch(q, key, idx) ==
    LET s == content_list(q)
        P == Positions(s, key)
    IN  IF P = {}
        THEN idx = -1
        ELSE /\ idx \in Window(q)
             /\ q.data[idx].id = key
             /\ \E i \in P :
                   /\ \A j \in P : i <= j
                   /\ idx = (q.front + (i - 1)) % q.capacity
             /\ \A k \in Occupied(q) :
                   q.data[k].id = key => q.data[idx].entry <= q.data[k].entry

\* C11: find_index_by_id(key) returns the absolute index (front + i) mod capacity
\* of the smallest logical position i whose record has the key (the earliest
\* arrival among duplicates), and None when no resident record has the key or
\* the queue is empty.
FindIndexCorrect ==
    /\ \A key \in CarIds \cup {"KA00"} :
          IsFirstMatch(queue, key, find_index_by_id(queue, key))
    /\ (op = "search_by_id" /\ arg.item.id # "") =>
          IsFirstMatch(pre, arg.item.id, ret.index)

\* C11 witness: a search finds a record that is not at front, in a window that
\* wraps and holds a later record with the same id.
FindIndexWitness ==
    /\ op = "search_by_id" /\ ret.index # -1
    /\ ret.index # pre.front
    /\ pre.front + pre.size > pre.capacity
    /\ Cardinality(Positions(content_list(pre), arg.item.id)) >= 2

\* C12: whenever the lookup of remove_by_id finds an index, remove_by_index on it
\* succeeds, and the logical sequence becomes the previous one without the
\* earliest-arrived record with that key, with front 0; a key that is not parked
\* leaves the queue as it was.
FindThenRemove ==
    op = "remove_by_id" =>
        LET s == content_list(pre)
            P == Positions(s, arg.item.id)
        IN  /\ ret.exc = "none"
            /\ ret.index # -1 => ret.removed
            /\ P # {} =>
                  /\ ret.index # -1 /\ ret.removed
                  /\ content_list(queue) = Without(s, Min(P))
                  /\ queue.front = 0
                  /\ queue.size = pre.size - 1
            /\ P = {} => (~ret.removed /\ queue = pre)

\* C12 witness: the example, a queue of capacity 4 holding A, B, C from slot 0
\* on, B's id asked for; [A, C] is left.
FindThenRemoveWitness ==
    /\ op = "remove_by_id" /\ ret.removed
    /\ pre.capacity = 4 /\ pre.front = 0 /\ pre.size = 3
    /\ pre.data[1].id = arg.item.id /\ pre.data[0].id # arg.item.id
    /\ content_list(queue) = <<pre.data[0], pre.data[2]>>

\* C15: a clear_all that went through (confirmed, where a confirmation is asked)
\* leaves a queue equal to a fresh one of the current capacity: capacity as
\* before, front 0, size 0, every slot empty.
ClearAllFresh ==
    (op = "clear_all" /\ arg.n = 1) =>
        /\ queue.capacity = pre.capacity
        /\ queue.front = 0
        /\ queue.size = 0
        /\ DOMAIN queue.data = 0..(pre.capacity - 1)
        /\ \A i \in DOMAIN queue.data : queue.data[i] = None

\* C15 witness: a confirmed clear of a queue of capacity 5 that holds records and
\* whose front is not 0.
ClearAllWitness ==
    /\ op = "clear_all" /\ arg.n = 1 /\ app = "improved"
    /\ pre.capacity = 5 /\ pre.size > 1 /\ pre.front > 0

GuardSafety ==
    /\ ret.exc = "none"
    /\ (op = "park_car" /\ pre.size = pre.capacity) => queue = pre
    /\ (op = "exit_car" /\ pre.size = 0) => queue = pre

\* C20 witness: park is clicked, and an id given, while the queue is full and its
\* window wraps.
GuardSafetyWitness ==
    /\ op = "park_car" /\ arg.item.id # ""
    /\ pre.size = pre.capacity /\ pre.front > 0

\* C21: the rebuild loops never overflow: no call of remove_by_index or of
\* resize_preserve raises OverflowError from its internal enqueue calls, so neither
\* stops half way after resetting data, front and size: a removal that found its
\* slot puts all size - 1 survivors back, a resize puts back every record the new
\* capacity has room for, and front is 0 after either rebuild.
RebuildNeverOverflows ==
    /\ op = "remove_by_index" =>
          /\ ret.exc = "none"
          /\ ret.removed =>
                /\ queue.size = pre.size - 1
                /\ queue.front = 0
    /\ op = "resize_preserve" =>
          /\ ret.exc = "none"
          /\ queue.size = Min({pre.size, queue.capacity})
          /\ queue.front = 0

\* C21 witness: a resize_preserve of a full, wrapped queue to a smaller capacity,
\* where the refill loop stops on is_full() with records still to come.
RebuildWitness ==
    /\ op = "resize_preserve"
    /\ pre.size = pre.capacity
    /\ pre.front > 0
    /\ pre.size > queue.capacity
    /\ queue.size = queue.capacity

=============================================================================
